---- MODULE Spec2Model ----
(***************************************************************************)
(* TaskBuddy: a task list kept as one JSON file (tasks.json), mutated by   *)
(* the web routes of app.py and the API routes of api_endpoints.py, with   *)
(* the hooks of hooks.py and .kiro/hooks/*.py around every mutation.       *)
(*                                                                         *)
(* Texts are sequences of one-character strings.  A JSON value is a record *)
(* [t, s, b, n] tagged by its Python type; a dict is the sequence of its   *)
(* items in insertion order, as json.dump writes them.  The optional hook  *)
(* modules are importable in this repository, so the ImportError fallback  *)
(* branches are not taken.                                                 *)
(***************************************************************************)
EXTENDS Integers, Sequences, FiniteSets, TLC

VARIABLES file, backups, now, last, ref, origin,
          pending, current_operations, metrics, ticks

vars == <<file, backups, now, last, ref, origin,
          pending, current_operations, metrics, ticks>>

\* the requests in flight in the server's threads, and the state of the
\* performance monitor: the operations being timed, the content of
\* performance_metrics.json, the value of time.time()
others == <<pending, current_operations, metrics, ticks>>

(***************************************************************************)
(* Bounds of the model                                                     *)
(***************************************************************************)
\* longest task list a request may extend
MaxTasks == 2
\* last second the clock reaches
MaxClock == 1
\* longest task list a request may extend while the environment fails
MaxFaultTasks == 1

\* the threads that serve requests at the same time
Callers == {1, 2}

\* a thread that serves no request
NoCall == [pc |-> "idle", task |-> <<>>, snapshot |-> <<>>, tasks |-> <<>>]

\* no request in flight, nothing timed, no metrics file
Quiet ==
    /\ pending = [c \in Callers |-> NoCall]
    /\ current_operations = <<>>
    /\ metrics = [operations |-> <<>>, summary |-> <<>>]
    /\ ticks = 0

(***************************************************************************)
(* Python values                                                           *)
(***************************************************************************)
Str(s) == [t |-> "str", s |-> s, b |-> FALSE, n |-> 0]

Bool(b) == [t |-> "bool", s |-> <<>>, b |-> b, n |-> 0]

Num(n) == [t |-> "num", s |-> <<>>, b |-> FALSE, n |-> n]

None == [t |-> "null", s |-> <<>>, b |-> FALSE, n |-> 0]

\* bool(x), `not x`
Truthy(v) ==
    CASE v.t = "str" -> v.s # <<>>
      [] v.t = "bool" -> v.b
      [] v.t = "num" -> v.n # 0
      [] OTHER -> FALSE

\* isinstance(x, bool), isinstance(x, str)
IsBool(v) == v.t = "bool"

IsStr(v) == v.t = "str"

(***************************************************************************)
(* Python dicts: items in insertion order                                  *)
(***************************************************************************)
Keys(d) == {d[i].k : i \in 1..Len(d)}

\* key in d
Has(d, key) == key \in Keys(d)

\* d[key], for a key the dict has
Get(d, key) == d[CHOOSE i \in 1..Len(d) : d[i].k = key].v

\* d.get(key, default)
GetOr(d, key, default) == IF Has(d, key) THEN Get(d, key) ELSE default

\* d[key] = v: an existing key keeps its place, a new key goes last
Put(d, key, v) ==
    IF Has(d, key)
    THEN [i \in 1..Len(d) |-> IF d[i].k = key THEN [k |-> key, v |-> v] ELSE d[i]]
    ELSE Append(d, [k |-> key, v |-> v])

\* d.pop(key): the dict without the key
Pop(d, key) == SelectSeq(d, LAMBDA e : e.k # key)

\* d1 == d2 in Python: the same keys with the same values, in any order
DictEq(d1, d2) ==
    /\ Keys(d1) = Keys(d2)
    /\ \A key \in Keys(d1) : Get(d1, key) = Get(d2, key)

\* the list without position i (0-based), list.pop(i)
PopAt(xs, i) == [j \in 1..(Len(xs) - 1) |-> IF j <= i THEN xs[j] ELSE xs[j + 1]]

\* the list with position i (0-based) replaced
SetAt(xs, i, x) == [j \in 1..Len(xs) |-> IF j = i + 1 THEN x ELSE xs[j]]

(***************************************************************************)
(* Texts                                                                   *)
(***************************************************************************)
\* characters str.strip() removes and \s matches
Whitespace == {" ", "\t"}

\* str.strip(): from the first to the last character that is not whitespace
strip(s) ==
    LET inked == {i \in 1..Len(s) : s[i] \notin Whitespace}
        first == CHOOSE i \in inked : \A j \in inked : i <= j
        final == CHOOSE i \in inked : \A j \in inked : j <= i
    IN IF inked = {} THEN <<>> ELSE SubSeq(s, first, final)

\* str.replace(char, '')
remove_char(s, char) == SelectSeq(s, LAMBDA c : c # char)

\* re.sub(r'\s+', ' ', s): every run of whitespace becomes one space, that
\* is, the first character of a run becomes a space and the rest go
collapse_ws(s) ==
    LET at == [i \in 1..Len(s) |-> [c |-> s[i], i |-> i]]
        kept == SelectSeq(at, LAMBDA e :
                    e.c \notin Whitespace \/ e.i = 1 \/ s[e.i - 1] \notin Whitespace)
    IN [j \in 1..Len(kept) |-> IF kept[j].c \in Whitespace THEN " " ELSE kept[j].c]

\* n copies of the character c
Rep(c, n) == [i \in 1..n |-> c]

(***************************************************************************)
(* .kiro/hooks/task_validation.py                                          *)
(***************************************************************************)
max_title_length == 200

min_title_length == 1

forbidden_chars == <<"<", ">", "&", "\"", "'">>

RECURSIVE remove_forbidden(_, _)
remove_forbidden(s, chars) ==
    IF chars = <<>> THEN s
    ELSE remove_forbidden(remove_char(s, Head(chars)), Tail(chars))

\* clean_title that truncates one character early
clean_title_cut_short(s) ==
    LET cut == IF Len(s) >= max_title_length
               THEN SubSeq(s, 1, max_title_length - 1) ELSE s
    IN collapse_ws(remove_forbidden(cut, forbidden_chars))

\* clean_title without the cut at max_title_length
clean_title_uncut(s) == collapse_ws(remove_forbidden(s, forbidden_chars))

\* the title after strip(): truncate, drop forbidden characters, collapse
clean_title(s) ==
    LET cut == IF Len(s) > max_title_length
               THEN SubSeq(s, 1, max_title_length) ELSE s
    IN collapse_ws(remove_forbidden(cut, forbidden_chars))

\* validate_task_title without the strip() of its first test
validate_title_unstripped(title) ==
    IF ~Truthy(title)
    THEN [exc |-> "ValueError", s |-> <<>>]
    ELSE IF ~IsStr(title)
    THEN [exc |-> "AttributeError", s |-> <<>>]
    ELSE [exc |-> "none", s |-> clean_title(strip(title.s))]

\* validate_task_title(title): exc is the exception raised ("none": returns s)
validate_task_title(title) ==
    IF ~Truthy(title)
    THEN [exc |-> "ValueError", s |-> <<>>]
    ELSE IF ~IsStr(title)
    THEN [exc |-> "AttributeError", s |-> <<>>]
    ELSE IF strip(title.s) = <<>>
    THEN [exc |-> "ValueError", s |-> <<>>]
    ELSE IF Len(strip(title.s)) < min_title_length
    THEN [exc |-> "ValueError", s |-> <<>>]
    ELSE [exc |-> "none", s |-> clean_title(strip(title.s))]

\* validate_task_data(task_data): exc and the dict as the call leaves it
validate_done(d) ==
    IF Has(d, "done")
    THEN (IF IsBool(Get(d, "done")) THEN d
          ELSE Put(d, "done", Bool(Truthy(Get(d, "done")))))
    ELSE Put(d, "done", Bool(FALSE))

validate_task_data(d) ==
    LET key == IF Has(d, "title") THEN "title"
               ELSE IF Has(d, "name") THEN "name" ELSE "none"
        r == IF key = "none" THEN [exc |-> "none", s |-> <<>>]
             ELSE validate_task_title(Get(d, key))
    IN IF r.exc # "none" THEN [exc |-> r.exc, d |-> d]
       ELSE [exc |-> "none",
             d |-> validate_done(IF key = "none" THEN d ELSE Put(d, key, Str(r.s)))]

\* validate_task_index(index, tasks): the exception raised
validate_task_index(index, tasks) ==
    IF index < 0 \/ index >= Len(tasks) THEN "ValueError" ELSE "none"

(***************************************************************************)
(* .kiro/hooks/data_consistency.py                                         *)
(***************************************************************************)
\* normalize_task_schema that sets done to False without testing for it
normalize_resetting_done(task) ==
    LET t1 == IF Has(task, "name") /\ ~Has(task, "title")
              THEN Put(Pop(task, "name"), "title", Get(task, "name"))
              ELSE task
    IN Put(t1, "done", Bool(FALSE))

\* normalize_task_schema that renames name without testing for title
normalize_renaming_always(task) ==
    LET t1 == IF Has(task, "name")
              THEN Put(Pop(task, "name"), "title", Get(task, "name"))
              ELSE task
        t2 == IF ~Has(t1, "title") THEN Put(t1, "title", Str(<<"U">>)) ELSE t1
    IN IF ~Has(t2, "done") THEN Put(t2, "done", Bool(FALSE)) ELSE t2

\* normalize_task_schema that copies name to title and keeps name
normalize_keeping_name(task) ==
    LET t1 == IF Has(task, "name") /\ ~Has(task, "title")
              THEN Put(task, "title", Get(task, "name"))
              ELSE task
        t2 == IF ~Has(t1, "title") THEN Put(t1, "title", Str(<<"U">>)) ELSE t1
    IN IF ~Has(t2, "done") THEN Put(t2, "done", Bool(FALSE)) ELSE t2

normalize_task_schema(task) ==
    LET t1 == IF Has(task, "name") /\ ~Has(task, "title")
              THEN Put(Pop(task, "name"), "title", Get(task, "name"))
              ELSE task
        t2 == IF ~Has(t1, "title")
              THEN Put(t1, "title", Str(<<"U", "n", "t", "i", "t", "l", "e", "d", " ", "T", "a", "s", "k">>))
              ELSE t1
    IN IF ~Has(t2, "done") THEN Put(t2, "done", Bool(FALSE)) ELSE t2

normalize_all_tasks(tasks) == [i \in 1..Len(tasks) |-> normalize_task_schema(tasks[i])]

validate_data_integrity(tasks) ==
    \A i \in 1..Len(tasks) :
        /\ Has(tasks[i], "title")
        /\ Has(tasks[i], "done")
        /\ IsStr(Get(tasks[i], "title"))
        /\ IsBool(Get(tasks[i], "done"))

(***************************************************************************)
(* The store file and the backup directory                                 *)
(***************************************************************************)
\* tasks.json: absent, a JSON list of objects, text json.load rejects, or
\* bytes that are not UTF-8 (a write cut in the middle of a character)
Absent == [kind |-> "absent", data |-> <<>>]

Json(tasks) == [kind |-> "json", data |-> tasks]

Corrupt == [kind |-> "corrupt", data |-> <<>>]

Undecodable == [kind |-> "undecodable", data |-> <<>>]

\* the environment's failures during one request: the copy of
\* restore_from_backup, the copy of create_backup, the write of the store
\* file ("open": open() fails, "dump": the file is truncated and json.dump
\* fails part-way), the append to task_operations.log
NoFault == [copy |-> FALSE, backup |-> FALSE, write |-> "none", log |-> FALSE]

Faults == [copy : BOOLEAN, backup : BOOLEAN, write : {"none", "open", "dump"}, log : BOOLEAN]

\* create_backup that keeps the backup there is under the name
create_backup_keeping_first(f, bks, clock, F) ==
    IF f.kind = "absent" \/ F.backup \/ \E b \in bks : b.ts = clock THEN bks
    ELSE bks \cup {[ts |-> clock, content |-> f]}

\* create_backup(file_path): the copy is named after the current second, so
\* a second backup within one second replaces the first
create_backup(f, bks, clock, F) ==
    IF f.kind = "absent" \/ F.backup THEN bks
    ELSE {b \in bks : b.ts # clock} \cup {[ts |-> clock, content |-> f]}

\* max(backups) taken as min(backups)
oldest_backup(bks) == CHOOSE b \in bks : \A u \in bks : b.ts <= u.ts

\* the timestamp part of a backup's name with the fields not padded
backup_name_unpadded(ts) ==
    LET digits(n) == IF n < 10 THEN <<n>> ELSE <<n \div 10, n % 10>>
    IN digits((ts \div 60) % 60) \o digits(ts % 60)

\* strftime("%Y%m%d_%H%M%S") of the clock, as the digits of minute and
\* second: every field is zero-padded to two digits
backup_name(ts) ==
    LET digits(n) == <<n \div 10, n % 10>>
    IN digits((ts \div 60) % 60) \o digits(ts % 60)

\* a < b for strings: at the first position where they differ a has the
\* lesser character, or a ends there
str_less(a, b) ==
    \E i \in 1..Len(b) :
        /\ \A j \in 1..(i - 1) : j <= Len(a) /\ a[j] = b[j]
        /\ i > Len(a) \/ (i <= Len(a) /\ a[i] < b[i])

\* max(backups): the backup whose name no other name is greater than
latest_backup(bks) ==
    CHOOSE b \in bks : \A u \in bks : ~str_less(backup_name(b.ts), backup_name(u.ts))

\* handle_json_corruption(file_path): the list returned and the file left
handle_json_corruption(f, bks, F) ==
    IF bks = {}
    THEN [tasks |-> <<>>, file |-> f, trace |-> <<"load", "no_backup">>]
    ELSE IF F.copy
    THEN [tasks |-> <<>>, file |-> f, trace |-> <<"load", "restore_failed">>]
    ELSE LET b == latest_backup(bks).content
         IN IF b.kind = "json"
            THEN [tasks |-> b.data, file |-> b, trace |-> <<"load", "restore">>]
            ELSE [tasks |-> <<>>, file |-> b, trace |-> <<"load", "restore", "parse_failed">>]

\* load_tasks(): the exception it raises, the list returned, the file left.
\* The except clause names json.JSONDecodeError and IOError; the
\* UnicodeDecodeError of the read is neither and leaves the function.
load_tasks(f, bks, F) ==
    CASE f.kind = "absent" ->
            [exc |-> "none", tasks |-> <<>>, file |-> f, trace |-> <<"load">>]
      [] f.kind = "json" ->
            [exc |-> "none", tasks |-> normalize_all_tasks(f.data), file |-> f,
             trace |-> <<"load">>]
      [] f.kind = "undecodable" ->
            [exc |-> "UnicodeDecodeError", tasks |-> <<>>, file |-> f, trace |-> <<"load">>]
      [] OTHER ->
            LET h == handle_json_corruption(f, bks, F)
            IN [exc |-> "none", tasks |-> h.tasks, file |-> h.file, trace |-> h.trace]

\* safe_file_write that takes the backup after the write
safe_file_write_backing_up_late(f, bks, clock, tasks, F) ==
    LET written == CASE F.write = "open" -> f
                     [] F.write = "dump" -> Corrupt
                     [] OTHER -> Json(tasks)
        bks2 == IF f.kind = "absent" THEN bks ELSE create_backup(written, bks, clock, F)
        tr == IF f.kind = "absent" THEN <<>>
              ELSE IF F.backup THEN <<"backup_failed">> ELSE <<"backup">>
    IN [ok |-> F.write = "none", file |-> written, backups |-> bks2,
        trace |-> tr \o (IF F.write = "none" THEN <<"write">> ELSE <<"write_failed">>)]

\* safe_file_write that gives up when the backup could not be made
safe_file_write_needing_backup(f, bks, clock, tasks, F) ==
    IF f.kind # "absent" /\ F.backup
    THEN [ok |-> FALSE, file |-> f, backups |-> bks, trace |-> <<"backup_failed">>]
    ELSE [ok |-> F.write = "none",
          file |-> CASE F.write = "open" -> f
                     [] F.write = "dump" -> Corrupt
                     [] OTHER -> Json(tasks),
          backups |-> create_backup(f, bks, clock, F),
          trace |-> (IF f.kind = "absent" THEN <<>> ELSE <<"backup">>)
                        \o (IF F.write = "none" THEN <<"write">> ELSE <<"write_failed">>)]

\* safe_file_write(file_path, data): ok is the value returned
safe_file_write(f, bks, clock, tasks, F) ==
    LET bks2 == create_backup(f, bks, clock, F)
        tr == IF f.kind = "absent" THEN <<>>
              ELSE IF F.backup THEN <<"backup_failed">> ELSE <<"backup">>
    IN CASE F.write = "open" ->
              [ok |-> FALSE, file |-> f, backups |-> bks2, trace |-> tr \o <<"write_failed">>]
         [] F.write = "dump" ->
              [ok |-> FALSE, file |-> Corrupt, backups |-> bks2, trace |-> tr \o <<"write_failed">>]
         [] OTHER ->
              [ok |-> TRUE, file |-> Json(tasks), backups |-> bks2, trace |-> tr \o <<"write">>]

\* save_tasks that does not raise when safe_file_write returns False
save_tasks_silent(f, bks, clock, tasks, F) ==
    LET w == safe_file_write(f, bks, clock, tasks, F)
    IN [exc |-> "none", file |-> w.file, backups |-> w.backups, trace |-> w.trace]

\* save_tasks(tasks): exc is the exception it raises
save_tasks(f, bks, clock, tasks, F) ==
    LET w == safe_file_write(f, bks, clock, tasks, F)
    IN [exc |-> IF w.ok THEN "none" ELSE "IOError",
        file |-> w.file, backups |-> w.backups, trace |-> w.trace]

(***************************************************************************)
(* hooks.py                                                                *)
(***************************************************************************)
\* before_task_add(task_data)
before_task_add(task_data) == validate_task_data(normalize_task_schema(task_data))

\* before_task_toggle(task, index)
before_task_toggle(task) ==
    IF ~(Has(task, "done") /\ IsBool(Get(task, "done")))
    THEN Put(task, "done", Bool(FALSE))
    ELSE task

\* the after hook with the metrics forwarded before the log line
after_task_metrics_first(F) ==
    IF F.log THEN [exc |-> "IOError", trace |-> <<"metrics", "log_failed">>]
    ELSE [exc |-> "none", trace |-> <<"metrics", "log">>]

\* after_task_add / after_task_toggle / after_task_delete: the log line,
\* then the metrics of kiro_hooks.on_task_operation_complete
after_task(F) ==
    IF F.log THEN [exc |-> "IOError", trace |-> <<"log_failed">>]
    ELSE [exc |-> "none", trace |-> <<"log", "metrics">>]

(***************************************************************************)
(* app.py and api_endpoints.py: the request handlers                       *)
(***************************************************************************)
\* what a request leaves: the store file, the backups, the HTTP status, the
\* exception raised inside the handler, the stages run, the body returned
Out(f, bks, status, exc, trace, ret) ==
    [file |-> f, backups |-> bks, status |-> status, exc |-> exc,
     trace |-> trace, ret |-> ret]

\* a bounds check that starts at one
in_range_from_one(task_id, tasks) == 0 < task_id /\ task_id < Len(tasks)

\* 0 <= task_id < len(tasks)
in_range(task_id, tasks) == 0 <= task_id /\ task_id < Len(tasks)

\* tasks.insert(0, task_data)
prepend_task(tasks, task_data) == <<task_data>> \o tasks

\* tasks.append(task_data)
append_task(tasks, task_data) == Append(tasks, task_data)

\* tasks.pop()
pop_last(tasks, task_id) == PopAt(tasks, Len(tasks) - 1)

\* tasks.pop(task_id)
pop_task(tasks, task_id) == PopAt(tasks, task_id)

\* tasks[task_id]['done'] = True
set_done(task) == Put(task, "done", Bool(TRUE))

\* tasks[task_id]['done'] = not tasks[task_id]['done']
flip_done(task) == Put(task, "done", Bool(~Truthy(Get(task, "done"))))

\* save_tasks and the after hook with the IOError of save_tasks swallowed
save_and_after_always(f, bks, clock, tasks, F) ==
    LET sv == save_tasks(f, bks, clock, tasks, F)
        af == after_task(F)
    IN [exc |-> af.exc, file |-> sv.file, backups |-> sv.backups,
        trace |-> sv.trace \o af.trace]

\* save_tasks(tasks) followed by the after hook, inside one try block
save_then_after(f, bks, clock, tasks, F) ==
    LET sv == save_tasks(f, bks, clock, tasks, F)
        af == after_task(F)
    IN IF sv.exc # "none"
       THEN [exc |-> sv.exc, file |-> sv.file, backups |-> sv.backups, trace |-> sv.trace]
       ELSE [exc |-> af.exc, file |-> sv.file, backups |-> sv.backups,
             trace |-> sv.trace \o af.trace]

\* add_task that saves the record before the before hook validates it
add_task_validating_late(f, bks, clock, task_name, F) ==
    IF ~Truthy(task_name) THEN Out(f, bks, 302, "none", <<>>, <<>>)
    ELSE LET raw == <<[k |-> "name", v |-> task_name], [k |-> "done", v |-> Bool(FALSE)]>>
             b == before_task_add(raw)
             ld == load_tasks(f, bks, F)
             c == save_then_after(ld.file, bks, clock,
                                  append_task(ld.tasks, normalize_task_schema(raw)), F)
         IN Out(c.file, c.backups, 302, IF b.exc # "none" THEN b.exc ELSE c.exc,
                <<"normalize">> \o ld.trace \o c.trace
                    \o (IF b.exc # "none" THEN <<"validate_failed">> ELSE <<"validate">>),
                <<>>)

\* POST /add
add_task(f, bks, clock, task_name, F) ==
    IF ~Truthy(task_name) THEN Out(f, bks, 302, "none", <<>>, <<>>)
    ELSE LET b == before_task_add(<<[k |-> "name", v |-> task_name],
                                    [k |-> "done", v |-> Bool(FALSE)]>>)
             ld == load_tasks(f, bks, F)
             c == save_then_after(ld.file, bks, clock, append_task(ld.tasks, b.d), F)
         IN IF b.exc # "none"
            THEN Out(f, bks, 302, b.exc, <<"normalize", "validate_failed">>, <<>>)
            ELSE IF ld.exc # "none"
            THEN Out(ld.file, bks, 302, ld.exc, <<"normalize", "validate">> \o ld.trace, <<>>)
            ELSE Out(c.file, c.backups, 302, c.exc,
                     <<"normalize", "validate">> \o ld.trace \o c.trace, <<>>)

\* GET /delete/<int:task_id>
delete_task(f, bks, clock, task_id, F) ==
    LET ld == load_tasks(f, bks, F)
        c == save_then_after(ld.file, bks, clock, pop_task(ld.tasks, task_id), F)
    IN IF ld.exc # "none"
       THEN Out(ld.file, bks, 500, ld.exc, ld.trace, <<>>)
       ELSE IF ~in_range(task_id, ld.tasks)
       THEN Out(ld.file, bks, 302, "none", ld.trace, <<>>)
       ELSE Out(c.file, c.backups, 302, c.exc, ld.trace \o <<"before">> \o c.trace, <<>>)

\* toggle_task with save_tasks and the after hook outside the bounds check
toggle_task_saving(f, bks, clock, task_id, F) ==
    LET ld == load_tasks(f, bks, F)
        t == flip_done(before_task_toggle(ld.tasks[task_id + 1]))
        new == IF in_range(task_id, ld.tasks) THEN SetAt(ld.tasks, task_id, t) ELSE ld.tasks
        c == save_then_after(ld.file, bks, clock, new, F)
    IN Out(c.file, c.backups, 204, c.exc, ld.trace \o <<"before">> \o c.trace, <<>>)

\* POST /toggle/<int:task_id>
toggle_task(f, bks, clock, task_id, F) ==
    LET ld == load_tasks(f, bks, F)
        t == flip_done(before_task_toggle(ld.tasks[task_id + 1]))
        c == save_then_after(ld.file, bks, clock, SetAt(ld.tasks, task_id, t), F)
    IN IF ld.exc # "none"
       THEN Out(ld.file, bks, 500, ld.exc, ld.trace, <<>>)
       ELSE IF ~in_range(task_id, ld.tasks)
       THEN Out(ld.file, bks, 204, "none", ld.trace, <<>>)
       ELSE Out(c.file, c.backups, 204, c.exc, ld.trace \o <<"before">> \o c.trace, <<>>)

\* GET /api/tasks (and the load of GET /)
get_all_tasks(f, bks, F) ==
    LET ld == load_tasks(f, bks, F)
    IN IF ld.exc # "none"
       THEN Out(ld.file, bks, 500, ld.exc, ld.trace, <<>>)
       ELSE Out(ld.file, bks, 200, "none", ld.trace, ld.tasks)

\* POST /api/tasks: data is the JSON body, a dict
create_task(f, bks, clock, data, F) ==
    IF data = <<>> \/ ~Has(data, "title")
    THEN Out(f, bks, 400, "none", <<>>, <<>>)
    ELSE LET b == before_task_add(<<[k |-> "title", v |-> Get(data, "title")],
                                    [k |-> "done", v |-> Bool(FALSE)]>>)
             ld == load_tasks(f, bks, F)
             c == save_then_after(ld.file, bks, clock, append_task(ld.tasks, b.d), F)
         IN IF b.exc # "none"
            THEN Out(f, bks, IF b.exc = "ValueError" THEN 400 ELSE 500, b.exc,
                     <<"normalize", "validate_failed">>, <<>>)
            ELSE IF ld.exc # "none"
            THEN Out(ld.file, bks, 500, ld.exc, <<"normalize", "validate">> \o ld.trace, <<>>)
            ELSE Out(c.file, c.backups, IF c.exc = "none" THEN 201 ELSE 500, c.exc,
                     <<"normalize", "validate">> \o ld.trace \o c.trace,
                     IF c.exc = "none" THEN <<b.d>> ELSE <<>>)

\* the fields PUT /api/tasks/<id> sets on the task
update_fields(task, data) ==
    LET t1 == IF Has(data, "title") THEN Put(task, "title", Get(data, "title")) ELSE task
    IN IF Has(data, "done")
       THEN Put(t1, "done", Bool(Truthy(Get(data, "done"))))
       ELSE t1

\* PUT /api/tasks/<int:task_id>
update_task(f, bks, clock, task_id, data, F) ==
    LET ld == load_tasks(f, bks, F)
        t == update_fields(ld.tasks[task_id + 1], data)
        sv == save_tasks(ld.file, bks, clock, SetAt(ld.tasks, task_id, t), F)
    IN IF ld.exc # "none"
       THEN Out(ld.file, bks, 500, ld.exc, ld.trace, <<>>)
       ELSE IF ~in_range(task_id, ld.tasks)
       THEN Out(ld.file, bks, 404, "none", ld.trace, <<>>)
       ELSE IF data = <<>>
       THEN Out(ld.file, bks, 400, "none", ld.trace, <<>>)
       ELSE Out(sv.file, sv.backups, IF sv.exc = "none" THEN 200 ELSE 500, sv.exc,
                ld.trace \o sv.trace, IF sv.exc = "none" THEN <<t>> ELSE <<>>)

\* DELETE /api/tasks/<int:task_id>
delete_task_api(f, bks, clock, task_id, F) ==
    LET ld == load_tasks(f, bks, F)
        c == save_then_after(ld.file, bks, clock, pop_task(ld.tasks, task_id), F)
    IN IF ld.exc # "none"
       THEN Out(ld.file, bks, 500, ld.exc, ld.trace, <<>>)
       ELSE IF ~in_range(task_id, ld.tasks)
       THEN Out(ld.file, bks, 404, "none", ld.trace, <<>>)
       ELSE Out(c.file, c.backups, IF c.exc = "none" THEN 200 ELSE 500, c.exc,
                ld.trace \o <<"before">> \o c.trace, <<>>)

(***************************************************************************)
(* Inputs                                                                  *)
(***************************************************************************)
\* a task as a request writes it, and the legacy forms a store file may hold
Task(title, done) == <<[k |-> "title", v |-> title], [k |-> "done", v |-> done]>>

Legacy(name, done) == <<[k |-> "name", v |-> name], [k |-> "done", v |-> done]>>

NameOnly(name) == <<[k |-> "name", v |-> name]>>

\* the store file a run starts from: none, an empty list, or lists written by
\* earlier versions (name for title, done missing or not a boolean)
InitialFiles ==
    { Absent,
      Json(<<>>),
      Json(<<Legacy(Str(<<"a">>), Bool(FALSE))>>),
      Json(<<Task(Str(<<"a">>), Bool(TRUE)), NameOnly(Str(<<"b">>))>>),
      Json(<<Task(Str(<<"b">>), Num(1))>>) }

\* the task field of the form posted to /add (None: the field is missing)
TitleInputs == { None, Str(<<>>), Str(<<" ">>), Str(<<" ", "a", " ">>) }

\* JSON bodies posted to /api/tasks
CreateBodies ==
    { <<>>,
      <<[k |-> "title", v |-> Str(<<"b">>)]>>,
      <<[k |-> "title", v |-> Str(<<"\t">>)]>>,
      <<[k |-> "title", v |-> Num(7)]>> }

\* JSON bodies put to /api/tasks/<id>
UpdateBodies ==
    { <<>>,
      <<[k |-> "done", v |-> Num(1)]>>,
      <<[k |-> "title", v |-> Str(<<"b">>)], [k |-> "done", v |-> Str(<<>>)]>> }

\* <int:task_id> matches the non-negative integers
Indices == 0..MaxTasks

(***************************************************************************)
(* The plain list the requests are compared with                           *)
(***************************************************************************)
Plain(title, done) == [title |-> title, done |-> done]

\* a stored task as a plain record; a task with other fields has none
PlainOf(task) ==
    IF Keys(task) = {"title", "done"}
    THEN Plain(Get(task, "title"), Get(task, "done"))
    ELSE Plain(None, None)

PlainView(tasks) == [i \in 1..Len(tasks) |-> PlainOf(tasks[i])]

RefAdd(xs, title) ==
    IF validate_task_title(title).exc = "none"
    THEN Append(xs, Plain(Str(validate_task_title(title).s), Bool(FALSE)))
    ELSE xs

RefToggle(xs, i) ==
    IF i < Len(xs)
    THEN [j \in 1..Len(xs) |->
            IF j = i + 1 THEN Plain(xs[j].title, Bool(~Truthy(xs[j].done))) ELSE xs[j]]
    ELSE xs

RefDelete(xs, i) ==
    IF i < Len(xs)
    THEN SubSeq(xs, 1, i) \o SubSeq(xs, i + 2, Len(xs))
    ELSE xs

RefUpdate(xs, i, data) ==
    IF i < Len(xs) /\ data # <<>>
    THEN [j \in 1..Len(xs) |->
            IF j = i + 1
            THEN Plain(IF Has(data, "title") THEN Get(data, "title") ELSE xs[j].title,
                       IF Has(data, "done") THEN Bool(Truthy(Get(data, "done")))
                       ELSE xs[j].done)
            ELSE xs[j]]
    ELSE xs

(***************************************************************************)
(* State machine                                                           *)
(***************************************************************************)
\* list_tasks(): what a load of the present store returns
list_tasks == load_tasks(file, backups, NoFault).tasks

Request(op, title, idx, data, out) ==
    [op |-> op, title |-> title, idx |-> idx, data |-> data, pre |-> file,
     status |-> out.status, exc |-> out.exc, trace |-> out.trace, ret |-> out.ret]

Init ==
    /\ file \in InitialFiles
    /\ backups = {}
    /\ now = 0
    /\ last = [op |-> "init", title |-> None, idx |-> 0, data |-> <<>>, pre |-> file,
               status |-> 0, exc |-> "none", trace |-> <<>>, ret |-> <<>>]
    /\ ref = <<>>
    /\ origin = IF file \in {Absent, Json(<<>>)} THEN "empty" ELSE "seeded"
    /\ Quiet

\* the request's effect on the store; the plain list is kept beside a store
\* that started empty, until the environment first fails
Apply(op, title, idx, data, F, out, ref2) ==
    /\ file' = out.file
    /\ backups' = out.backups
    /\ now' = now
    /\ last' = Request(op, title, idx, data, out)
    /\ origin' = IF F = NoFault /\ file.kind \in {"absent", "json"} THEN origin ELSE "faulted"
    /\ ref' = IF origin' = "empty" THEN ref2 ELSE <<>>
    /\ UNCHANGED others

WebAdd(Titles, FS, cap) ==
    \E t \in Titles, F \in FS :
        /\ Len(list_tasks) < cap
        /\ Apply("add", t, 0, <<>>, F, add_task(file, backups, now, t, F), RefAdd(ref, t))

WebToggle(FS, Idx) ==
    \E i \in Idx, F \in FS :
        Apply("toggle", None, i, <<>>, F, toggle_task(file, backups, now, i, F),
              RefToggle(ref, i))

WebDelete(FS) ==
    \E i \in Indices, F \in FS :
        Apply("delete", None, i, <<>>, F, delete_task(file, backups, now, i, F),
              RefDelete(ref, i))

ApiList(FS) ==
    \E F \in FS :
        Apply("list", None, 0, <<>>, F, get_all_tasks(file, backups, F), ref)

ApiCreate(Bodies, FS, cap) ==
    \E d \in Bodies, F \in FS :
        /\ Len(list_tasks) < cap
        /\ Apply("create", None, 0, d, F, create_task(file, backups, now, d, F),
                 IF Has(d, "title") THEN RefAdd(ref, Get(d, "title")) ELSE ref)

ApiUpdate(Bodies, FS, Idx) ==
    \E i \in Idx, d \in Bodies, F \in FS :
        Apply("update", None, i, d, F, update_task(file, backups, now, i, d, F),
              RefUpdate(ref, i, d))

ApiDelete(FS) ==
    \E i \in Indices, F \in FS :
        Apply("delete_api", None, i, <<>>, F, delete_task_api(file, backups, now, i, F),
              RefDelete(ref, i))

Next ==
    \/ WebAdd(TitleInputs, {NoFault}, MaxTasks)
    \/ WebToggle({NoFault}, Indices)
    \/ WebDelete({NoFault})
    \/ ApiList({NoFault})
    \/ ApiCreate(CreateBodies, {NoFault}, MaxTasks)
    \/ ApiUpdate(UpdateBodies, {NoFault}, Indices)
    \/ ApiDelete({NoFault})

Spec == Init /\ [][Next]_vars

(***************************************************************************)
(* The same requests with the environment failing: the clock moves, the    *)
(* store file is damaged between requests, copies and writes fail          *)
(***************************************************************************)
FaultSet ==
    { NoFault,
      [NoFault EXCEPT !.copy = TRUE],
      [NoFault EXCEPT !.backup = TRUE],
      [NoFault EXCEPT !.write = "open"],
      [NoFault EXCEPT !.write = "dump"],
      [NoFault EXCEPT !.log = TRUE] }

FaultTitles == { Str(<<"a">>) }

\* a second passes
Tick ==
    /\ now < MaxClock
    /\ now' = now + 1
    /\ last' = [op |-> "tick", title |-> None, idx |-> 0, data |-> <<>>, pre |-> file,
                status |-> 0, exc |-> "none", trace |-> <<>>, ret |-> <<>>]
    /\ UNCHANGED <<file, backups, ref, origin>>
    /\ UNCHANGED others

\* the store file is damaged outside the program (a crash in mid-write, an
\* editor): its text no longer parses, or its bytes no longer decode
CorruptFile ==
    /\ file.kind = "json"
    /\ file' \in {Corrupt, Undecodable}
    /\ last' = [op |-> "corrupt", title |-> None, idx |-> 0, data |-> <<>>, pre |-> file,
                status |-> 0, exc |-> "none", trace |-> <<>>, ret |-> <<>>]
    /\ origin' = "faulted"
    /\ ref' = <<>>
    /\ UNCHANGED <<backups, now>>
    /\ UNCHANGED others

NextFault ==
    \/ WebAdd(FaultTitles, FaultSet, MaxFaultTasks)
    \/ WebToggle(FaultSet, 0..MaxFaultTasks)
    \/ ApiList(FaultSet)
    \/ Tick
    \/ CorruptFile

\* the stores a run with failures starts from: none, or a legacy list
InitFault ==
    /\ Init
    /\ file \in {Absent, Json(<<Legacy(Str(<<"a">>), Bool(FALSE))>>)}

SpecFault == InitFault /\ [][NextFault]_vars

(***************************************************************************)
(* The API alone, with bodies whose fields are not of the expected type    *)
(***************************************************************************)
ApiUpdateBodies ==
    { <<>>,
      <<[k |-> "done", v |-> Num(1)]>>,
      <<[k |-> "title", v |-> Num(7)], [k |-> "done", v |-> Str(<<>>)]>> }

InitApi ==
    /\ Init
    /\ origin = "empty"

NextApi ==
    \/ ApiList({NoFault})
    \/ ApiCreate(CreateBodies, {NoFault}, MaxTasks)
    \/ ApiUpdate(ApiUpdateBodies, {NoFault}, Indices)
    \/ ApiDelete({NoFault})

SpecApi == InitApi /\ [][NextApi]_vars

(***************************************************************************)
(* The form of /add over every short text, and texts around the length cap *)
(***************************************************************************)
\* longest text enumerated
MaxLen == 3

Alphabet == {"a", " ", "\t", "<"}

RECURSIVE TextsOfLen(_)
TextsOfLen(n) ==
    IF n = 0 THEN {<<>>}
    ELSE {<<c>> \o s : c \in Alphabet, s \in TextsOfLen(n - 1)}

ShortTexts == UNION {TextsOfLen(n) : n \in 0..MaxLen}

LongTexts ==
    { Rep("a", max_title_length),
      Rep("a", max_title_length + 1),
      <<" ">> \o Rep("a", max_title_length) \o <<" ">>,
      Rep("a", max_title_length - 1) \o <<" ", "a">>,
      Rep("a", max_title_length - 2) \o <<" ", " ">> \o <<"a">> }

AllTitles == {Str(s) : s \in ShortTexts \cup LongTexts}

\* one request on each initial store, for each text
NextTitle ==
    /\ last.op = "init"
    /\ WebAdd(AllTitles, {NoFault}, MaxTasks + 1)

SpecTitle == Init /\ [][NextTitle]_vars

(***************************************************************************)
(* load_tasks and save_tasks called directly, as the tests call them       *)
(***************************************************************************)
\* a record with both the legacy and the present field
Renamed(name, title, done) ==
    <<[k |-> "name", v |-> name], [k |-> "title", v |-> title], [k |-> "done", v |-> done]>>

\* the lists handed to save_tasks: valid ones, the list of
\* test_save_and_load_tasks, records without done, without title, with both
Collections ==
    { <<>>,
      <<Task(Str(<<"a">>), Bool(FALSE))>>,
      <<Task(Str(<<"a">>), Bool(TRUE)), Task(Str(<<"b">>), Bool(FALSE))>>,
      <<Legacy(Str(<<"a">>), Bool(FALSE)), Legacy(Str(<<"b">>), Bool(TRUE))>>,
      <<NameOnly(Str(<<"b">>)), Task(Str(<<"a">>), Bool(TRUE))>>,
      <<Renamed(Str(<<"a">>), Str(<<"b">>), Bool(TRUE))>>,
      <<<<[k |-> "done", v |-> Bool(TRUE)]>>>> }

\* the failures of one save_tasks call
StoreFaults ==
    { NoFault,
      [NoFault EXCEPT !.backup = TRUE],
      [NoFault EXCEPT !.write = "open"],
      [NoFault EXCEPT !.write = "dump"] }

\* save_tasks(tasks), until the backup directory holds a backup
StoreSave ==
    \E C \in Collections, F \in StoreFaults :
        /\ backups = {}
        /\ LET sv == save_tasks(file, backups, now, C, F)
           IN Apply("save", None, 0, C, F,
                    Out(sv.file, sv.backups, 0, sv.exc, sv.trace, <<>>), <<>>)

\* save_tasks(load_tasks()) after a save
StoreResave ==
    \E F \in StoreFaults :
        /\ last.op = "save"
        /\ LET ld == load_tasks(file, backups, F)
               sv == save_tasks(ld.file, backups, now, ld.tasks, F)
           IN Apply("resave", None, 0, <<>>, F,
                    IF ld.exc # "none"
                    THEN Out(ld.file, backups, 0, ld.exc, ld.trace, <<>>)
                    ELSE Out(sv.file, sv.backups, 0, sv.exc, ld.trace \o sv.trace, ld.tasks),
                    <<>>)

NextStore ==
    \/ StoreSave
    \/ StoreResave
    \/ ApiList({NoFault})
    \/ Tick

SpecStore == Init /\ [][NextStore]_vars

(***************************************************************************)
(* The mutations with a failing write or a failing operation log           *)
(***************************************************************************)
\* one failure per request: the write of the store file, the append to
\* task_operations.log
StageFaults ==
    { NoFault,
      [NoFault EXCEPT !.write = "open"],
      [NoFault EXCEPT !.write = "dump"],
      [NoFault EXCEPT !.log = TRUE] }

StageTitles == { Str(<<"a">>), Str(<<" ">>) }

NextStages ==
    \/ WebAdd(StageTitles, StageFaults, MaxFaultTasks)
    \/ WebToggle(StageFaults, 0..MaxFaultTasks)
    \/ WebDelete(StageFaults)
    \/ ApiCreate(CreateBodies, StageFaults, MaxFaultTasks)
    \/ ApiDelete(StageFaults)

SpecStages == InitFault /\ [][NextStages]_vars

(***************************************************************************)
(* Backups made around the seconds where the digits of the name change     *)
(***************************************************************************)
\* the second a run starts in: before :10 and before the next minute
ClockStarts == {0, 9, 59}

InitNames ==
    /\ file = Json(<<Task(Str(<<"a">>), Bool(FALSE))>>)
    /\ backups = {}
    /\ now \in ClockStarts
    /\ last = [op |-> "init", title |-> None, idx |-> 0, data |-> <<>>, pre |-> file,
               status |-> 0, exc |-> "none", trace |-> <<>>, ret |-> <<>>]
    /\ ref = <<>>
    /\ origin = "seeded"
    /\ Quiet

\* a second passes
TickNames ==
    /\ \E s \in ClockStarts : s <= now /\ now < s + MaxClock
    /\ now' = now + 1
    /\ last' = [op |-> "tick", title |-> None, idx |-> 0, data |-> <<>>, pre |-> file,
                status |-> 0, exc |-> "none", trace |-> <<>>, ret |-> <<>>]
    /\ UNCHANGED <<file, backups, ref, origin>>
    /\ UNCHANGED others

NextNames ==
    \/ WebToggle({NoFault}, {0})
    \/ WebAdd(FaultTitles, {NoFault}, MaxFaultTasks + 1)
    \/ ApiList({NoFault})
    \/ CorruptFile
    \/ TickNames

SpecNames == InitNames /\ [][NextNames]_vars

(***************************************************************************)
(* Two threads of the server inside POST /add at the same time: app.py     *)
(* takes no lock, so the lines of add_task interleave                      *)
(***************************************************************************)
MaxRaceTasks == 3

RaceTitles == { Str(<<"a">>), Str(<<"b">>) }

\* the list a thread hands to save_tasks that is read again at that moment
local_tasks_reloading(p, f, bks) == append_task(load_tasks(f, bks, NoFault).tasks, p.task)

\* the list a thread hands to save_tasks: its local variable tasks
local_tasks(p, f, bks) == p.tasks

\* a line of add_task run by thread c; last is the last write to the store
RaceStep(c, op, p, f, bks, exc, trace) ==
    /\ pending' = [pending EXCEPT ![c] = p]
    /\ file' = f
    /\ backups' = bks
    /\ last' = IF op = "save"
               THEN [op |-> op, title |-> p.task, idx |-> c, data |-> p.tasks, pre |-> file,
                     status |-> 0, exc |-> exc, trace |-> trace, ret |-> <<>>]
               ELSE last
    /\ UNCHANGED <<now, ref, origin, current_operations, metrics, ticks>>

\* task_data = hooks.before_task_add({'name': task_name, 'done': False})
RaceBegin(c) ==
    \E t \in RaceTitles :
        LET b == before_task_add(<<[k |-> "name", v |-> t], [k |-> "done", v |-> Bool(FALSE)]>>)
        IN /\ pending[c].pc = "idle"
           /\ file.kind = "json" => Len(file.data) < MaxRaceTasks
           /\ b.exc = "none"
           /\ RaceStep(c, "begin", [pending[c] EXCEPT !.pc = "hooked", !.task = b.d],
                       file, backups, "none", <<"normalize", "validate">>)

\* tasks = load_tasks(); tasks.append(task_data)
RaceLoad(c) ==
    LET ld == load_tasks(file, backups, NoFault)
    IN /\ pending[c].pc = "hooked"
       /\ ld.exc = "none"
       /\ RaceStep(c, "load",
                   [pending[c] EXCEPT !.pc = "loaded", !.snapshot = ld.tasks,
                                      !.tasks = append_task(ld.tasks, pending[c].task)],
                   ld.file, backups, "none", ld.trace)

\* save_tasks(tasks)
RaceSave(c) ==
    LET sv == save_tasks(file, backups, now, local_tasks(pending[c], file, backups), NoFault)
    IN /\ pending[c].pc = "loaded"
       /\ RaceStep(c, "save", [pending[c] EXCEPT !.pc = "saved"],
                   sv.file, sv.backups, sv.exc, sv.trace)

\* hooks.after_task_add(task_data)
RaceAfter(c) ==
    LET af == after_task(NoFault)
    IN /\ pending[c].pc = "saved"
       /\ RaceStep(c, "after", [pending[c] EXCEPT !.pc = "done"],
                   file, backups, af.exc, af.trace)

\* return redirect(url_for('index')): the thread is free for the next request
RaceReturn(c) ==
    /\ pending[c].pc = "done"
    /\ \A d \in Callers : pending[d].pc \in {"idle", "done"}
    /\ RaceStep(c, "return", NoCall, file, backups, "none", <<>>)

InitRace ==
    /\ Init
    /\ file \in {Absent, Json(<<Task(Str(<<"a">>), Bool(TRUE))>>)}

NextRace ==
    \E c \in Callers :
        \/ RaceBegin(c)
        \/ RaceLoad(c)
        \/ RaceSave(c)
        \/ RaceAfter(c)
        \/ RaceReturn(c)

SpecRace == InitRace /\ [][NextRace]_vars

(***************************************************************************)
(* performance_monitoring.py                                               *)
(***************************************************************************)
\* time.time() counts quarters of a millisecond here; a duration is a number
\* of quarters, which round(duration * 1000, 2) leaves as it is
TicksPerMs == 4

\* the history keeps the last 1000 operations
max_operations == 1000

\* f"{operation_name}_{int(time.time() * 1000)}"
operation_id(operation_name, t) == [name |-> operation_name, ms |-> t \div TicksPerMs]

\* start_operation(operation_name) at time t: the token and the dict after
start_operation(ops, operation_name, t) ==
    [ret |-> operation_id(operation_name, t),
     ops |-> Put(ops, operation_id(operation_name, t),
                 [name |-> operation_name, start_time |-> t, timestamp |-> t])]

\* round(duration * 1000, 2), in hundredths of a millisecond
duration_ms(duration) == duration * (100 \div TicksPerMs)

\* xs[:n]
keep_first(xs, n) == SubSeq(xs, 1, IF Len(xs) < n THEN Len(xs) ELSE n)

\* xs[-n:]
keep_last(xs, n) == SubSeq(xs, IF Len(xs) < n THEN 1 ELSE Len(xs) - n + 1, Len(xs))

\* float('inf')
Inf == [inf |-> TRUE, x |-> 0]

\* min(m, duration) where m may be float('inf')
py_min(m, duration) ==
    IF m.inf \/ duration < m.x THEN [inf |-> FALSE, x |-> duration] ELSE m

\* max(m, duration)
py_max(m, duration) == IF duration > m THEN duration ELSE m

\* the statistics of an operation never recorded; avg_duration is kept as the
\* quotient n / d
new_stats ==
    [count |-> 0, total_duration |-> 0, avg_duration |-> [n |-> 0, d |-> 1],
     min_duration |-> Inf, max_duration |-> 0]

\* update_summary_stats(metrics, operation, duration): metrics['summary'] after
update_summary_stats(summary, operation, duration) ==
    LET stats == GetOr(summary, operation, new_stats)
        count == stats.count + 1
        total == stats.total_duration + duration
    IN Put(summary, operation,
           [count |-> count,
            total_duration |-> total,
            avg_duration |-> [n |-> total, d |-> count],
            min_duration |-> py_min(stats.min_duration, duration),
            max_duration |-> py_max(stats.max_duration, duration)])

\* record_metric(operation, duration, timestamp): the metrics file after
record_metric(m, operation, duration, timestamp) ==
    [operations |-> keep_last(Append(m.operations,
                                     [operation |-> operation,
                                      duration_ms |-> duration_ms(duration),
                                      timestamp |-> timestamp]),
                              max_operations),
     summary |-> update_summary_stats(m.summary, operation, duration)]

\* end_operation that leaves the operation in flight
end_operation_keeping(ops, m, token, t) ==
    IF ~Has(ops, token) THEN [ret |-> 0, ops |-> ops, metrics |-> m]
    ELSE LET operation == Get(ops, token)
         IN [ret |-> t - operation.start_time, ops |-> ops,
             metrics |-> record_metric(m, operation.name, t - operation.start_time,
                                       operation.timestamp)]

\* end_operation(operation_id) at time t: the duration returned, the dict and
\* the metrics file after
end_operation(ops, m, token, t) ==
    IF ~Has(ops, token) THEN [ret |-> 0, ops |-> ops, metrics |-> m]
    ELSE LET operation == Get(ops, token)
         IN [ret |-> t - operation.start_time, ops |-> Pop(ops, token),
             metrics |-> record_metric(m, operation.name, t - operation.start_time,
                                       operation.timestamp)]

(***************************************************************************)
(* The performance monitor under calls of start_operation, end_operation   *)
(* and record_metric; ref lists the calls of record_metric made so far     *)
(***************************************************************************)
MaxMonTicks == 4

MaxMetrics == 2

MonNames == {"a", "b"}

\* the operations timed with start_operation
MonStarted == {"a"}

\* durations handed to record_metric by a caller
MonDurations == {-4, 2}

\* every token start_operation can have returned
MonTokens == {operation_id(n, t) : n \in MonNames, t \in 0..MaxMonTicks}

\* a call on the monitor; last keeps the call, the operations in flight and
\* the metrics file before it, and what it returned
MonStep(op, name, ret, ops, m, calls) ==
    /\ current_operations' = ops
    /\ metrics' = m
    /\ ref' = calls
    /\ last' = [op |-> op, title |-> name, idx |-> 0, data |-> current_operations,
                pre |-> metrics, status |-> 0, exc |-> "none", trace |-> <<>>, ret |-> ret]
    /\ UNCHANGED <<file, backups, now, origin, pending, ticks>>

\* token = start_operation(name)
MonStart ==
    \E n \in MonStarted :
        LET st == start_operation(current_operations, n, ticks)
        IN MonStep("start", n, st.ret, st.ops, metrics, ref)

\* end_operation(token)
MonStop ==
    \E token \in MonTokens :
        LET en == end_operation(current_operations, metrics, token, ticks)
        IN /\ Len(ref) < MaxMetrics
           /\ MonStep("stop", token, en.ret, en.ops, en.metrics,
                      IF Has(current_operations, token)
                      THEN Append(ref, [operation |-> token.name, duration |-> en.ret,
                                        timestamp |-> Get(current_operations, token).timestamp])
                      ELSE ref)

\* record_metric(operation, duration, timestamp)
MonRecord(Names, Durations, cap) ==
    \E n \in Names, d \in Durations :
        /\ Len(ref) < cap
        /\ MonStep("record", n, 0, current_operations,
                   record_metric(metrics, n, d, Len(ref)),
                   Append(ref, [operation |-> n, duration |-> d, timestamp |-> Len(ref)]))

\* a quarter of a millisecond passes
MonTick ==
    /\ ticks < MaxMonTicks
    /\ ticks' = ticks + 1
    /\ last' = [op |-> "tick", title |-> None, idx |-> 0, data |-> current_operations,
                pre |-> metrics, status |-> 0, exc |-> "none", trace |-> <<>>, ret |-> <<>>]
    /\ UNCHANGED <<file, backups, now, ref, origin, pending, current_operations, metrics>>

InitMonitor ==
    /\ Init
    /\ file = Absent

NextMonitor ==
    \/ MonStart
    \/ MonStop
    \/ MonRecord(MonNames, MonDurations, MaxMetrics)
    \/ MonTick

SpecMonitor == InitMonitor /\ [][NextMonitor]_vars

(***************************************************************************)
(* record_metric called until the history overflows                        *)
(***************************************************************************)
MaxRecords == 1003

NextHistory == MonRecord({"a"}, {2}, MaxRecords)

SpecHistory == InitMonitor /\ [][NextHistory]_vars

(***************************************************************************)
(* Saves, damage to the store file and loads, with the last save that      *)
(* succeeded kept in ref: the content of the store file before it, and     *)
(* whether the latest backup made is the one that save made                *)
(***************************************************************************)
\* the request's effect on the store and on the record of the last save
RecApply(op, idx, F, out) ==
    LET stage(s) == \E i \in 1..Len(out.trace) : out.trace[i] = s
        before == load_tasks(file, backups, F).file
    IN /\ file' = out.file
       /\ backups' = out.backups
       /\ last' = Request(op, None, idx, <<>>, out)
       /\ ref' = IF stage("write")
                 THEN <<[before |-> before, backed |-> stage("backup")]>>
                 ELSE IF stage("backup")
                 THEN [i \in 1..Len(ref) |-> [ref[i] EXCEPT !.backed = FALSE]]
                 ELSE ref
       /\ UNCHANGED <<now, origin>>
       /\ UNCHANGED others

RecAdd ==
    \E t \in FaultTitles, F \in FaultSet :
        /\ Len(list_tasks) < MaxFaultTasks
        /\ RecApply("add", 0, F, add_task(file, backups, now, t, F))

RecToggle ==
    \E F \in FaultSet :
        RecApply("toggle", 0, F, toggle_task(file, backups, now, 0, F))

RecLoad ==
    \E F \in FaultSet :
        RecApply("list", 0, F, get_all_tasks(file, backups, F))

\* the store file is damaged outside the program
RecCorrupt ==
    /\ file.kind = "json"
    /\ file' \in {Corrupt, Undecodable}
    /\ last' = [op |-> "corrupt", title |-> None, idx |-> 0, data |-> <<>>, pre |-> file,
                status |-> 0, exc |-> "none", trace |-> <<>>, ret |-> <<>>]
    /\ UNCHANGED <<backups, now, ref, origin>>
    /\ UNCHANGED others

NextRecover ==
    \/ RecAdd
    \/ RecToggle
    \/ RecLoad
    \/ RecCorrupt
    \/ Tick

SpecRecover == InitFault /\ [][NextRecover]_vars

(***************************************************************************)
(* Properties                                                              *)
(***************************************************************************)
\* what a load of a store file that parses returns
View(f) == load_tasks(f, {}, NoFault).tasks

SeqHas(tr, x) == \E i \in 1..Len(tr) : tr[i] = x

\* the title a request asks to add
AddedTitle(l) ==
    IF l.op = "add" THEN l.title
    ELSE IF l.op = "create" /\ Has(l.data, "title") THEN Get(l.data, "title")
    ELSE None

\* C1: after any sequence of add, toggle and delete requests on a store that
\* started empty, list_tasks returns what the same calls leave of a plain
\* list: add appends, toggle(i) flips position i, delete(i) removes it.
C1_PlainList == origin = "empty" => PlainView(list_tasks) = ref

C1_Witness ==
    /\ origin = "empty"
    /\ last.op = "delete"
    /\ last.idx = 0
    /\ Len(View(last.pre)) = 2
    /\ Len(ref) = 1
    /\ ref[1].done = Bool(TRUE)
    /\ PlainView(View(last.pre))[1] # ref[1]

\* the trimmed text of a title that the claim C2 calls valid
ValidTrimmed(t) ==
    /\ IsStr(t)
    /\ Len(strip(t.s)) >= 1
    /\ Len(strip(t.s)) <= 200
    /\ \A i \in 1..Len(t.s) : t.s[i] \notin {"<", ">", "&", "\"", "'"}

\* every whitespace character is a space that no whitespace follows
SingleSpaced(s) ==
    \A i \in 1..Len(s) :
        s[i] \in Whitespace => s[i] = " " /\ (i < Len(s) => s[i + 1] \notin Whitespace)

HasTask(tasks, title, done) ==
    \E i \in 1..Len(tasks) :
        /\ Has(tasks[i], "title") /\ Get(tasks[i], "title") = Str(title)
        /\ Has(tasks[i], "done") /\ Get(tasks[i], "done") = Bool(done)

\* C2 as stated: for every title t whose trimmed form has 1 to 200 characters
\* and no forbidden character, after add_task(t) the list contains a task
\* with title trim(t) and done false.
C2_Original ==
    last.op = "add" /\ ValidTrimmed(last.title)
        => HasTask(list_tasks, strip(last.title.s), FALSE)

\* C2 amended: the same for titles whose trimmed form also has no whitespace
\* other than single spaces; the task is the last of the list and the tasks
\* before it are the ones the list had.
C2_TrimmedTitleAdded ==
    last.op = "add" /\ ValidTrimmed(last.title) /\ SingleSpaced(strip(last.title.s))
        => /\ Len(list_tasks) = Len(View(last.pre)) + 1
           /\ SubSeq(list_tasks, 1, Len(View(last.pre))) = View(last.pre)
           /\ HasTask(<<list_tasks[Len(list_tasks)]>>, strip(last.title.s), FALSE)

C2_Witness ==
    /\ last.op = "add"
    /\ ValidTrimmed(last.title)
    /\ SingleSpaced(strip(last.title.s))
    /\ Len(strip(last.title.s)) = 200
    /\ strip(last.title.s) # last.title.s
    /\ Len(View(last.pre)) = 2
    /\ Len(list_tasks) = 3

\* an empty title, or one made of whitespace only
Blank(t) == IsStr(t) /\ strip(t.s) = <<>>

\* C3 as stated: add_task with an empty or whitespace-only title fails with
\* InvalidTitle and the stored list keeps its length.
C3_Original ==
    last.op \in {"add", "create"} /\ Blank(AddedTitle(last))
        => last.exc = "ValueError" /\ Len(list_tasks) = Len(View(last.pre))

\* C3 amended: such a title stores nothing: the store file is left as it
\* was, without write or backup.  POST /api/tasks fails with ValueError and
\* status 400; /add answers with its redirect, without an error for the
\* empty title and with the ValueError caught for a whitespace-only one.
C3_BlankTitleStoresNothing ==
    last.op \in {"add", "create"} /\ Blank(AddedTitle(last))
        => /\ file = last.pre
           /\ Len(list_tasks) = Len(View(last.pre))
           /\ ~SeqHas(last.trace, "write") /\ ~SeqHas(last.trace, "backup")
           /\ last.op = "create" => last.status = 400 /\ last.exc = "ValueError"
           /\ last.op = "add" =>
                /\ last.status = 302
                /\ last.exc = (IF last.title.s = <<>> THEN "none" ELSE "ValueError")

C3_Witness ==
    /\ last.op = "add"
    /\ last.title = Str(<<" ">>)
    /\ last.exc = "ValueError"
    /\ Len(View(last.pre)) = 1
    /\ file = last.pre

\* the request is a toggle of a task the list has
Toggled(l) == l.op = "toggle" /\ l.idx < Len(View(l.pre))

\* the list a second toggle_task(i) leaves
ToggledAgain == View(toggle_task(file, backups, now, last.idx, NoFault).file)

\* C4 as stated: for every stored list and valid index i, toggle_task(i)
\* flips the done flag of task i, and a second toggle_task(i) leaves the
\* task as it was before the first.
C4_Original ==
    Toggled(last) =>
        /\ Truthy(Get(list_tasks[last.idx + 1], "done"))
              # Truthy(Get(View(last.pre)[last.idx + 1], "done"))
        /\ ToggledAgain[last.idx + 1] = View(last.pre)[last.idx + 1]

\* C4 amended: the same for a task whose done flag is a boolean, and no
\* other task changes; a done flag that is not a boolean is first reset to
\* false, so that the toggle leaves it true.
C4_ToggleFlips ==
    Toggled(last) =>
        LET old == View(last.pre)
            i == last.idx + 1
        IN /\ Len(list_tasks) = Len(old)
           /\ \A j \in 1..Len(old) : j # i => list_tasks[j] = old[j]
           /\ IsBool(Get(old[i], "done")) =>
                /\ list_tasks[i] = Put(old[i], "done", Bool(~Get(old[i], "done").b))
                /\ ToggledAgain = old
           /\ ~IsBool(Get(old[i], "done")) =>
                list_tasks[i] = Put(old[i], "done", Bool(TRUE))

C4_Witness ==
    /\ Toggled(last)
    /\ last.idx = 1
    /\ Get(View(last.pre)[2], "done") = Bool(TRUE)
    /\ Get(list_tasks[2], "done") = Bool(FALSE)
    /\ ToggledAgain = View(last.pre)

\* C5: delete_task(i) with 0 <= i < n removes exactly the record at i: the
\* list has n-1 records, those before i keep their index and the record
\* that was at j > i is at j-1.
C5_DeleteShifts ==
    last.op \in {"delete", "delete_api"} /\ last.idx < Len(View(last.pre)) =>
        LET old == View(last.pre)
        IN /\ Len(list_tasks) = Len(old) - 1
           /\ \A j \in 1..Len(old) :
                /\ j < last.idx + 1 => list_tasks[j] = old[j]
                /\ j > last.idx + 1 => list_tasks[j - 1] = old[j]

C5_Witness ==
    /\ last.op = "delete"
    /\ last.idx = 0
    /\ Len(View(last.pre)) = 2
    /\ View(last.pre)[1] # View(last.pre)[2]
    /\ list_tasks = <<View(last.pre)[2]>>

\* the request addresses a task by an index the list does not have
BadIndex(l) ==
    /\ l.op \in {"toggle", "delete", "update", "delete_api"}
    /\ l.idx >= Len(View(l.pre))

\* C6 as stated: toggle_task and delete_task with an index out of range fail
\* with IndexOutOfRange, an error surfaced to the caller.
C6_Original ==
    BadIndex(last) /\ last.op \in {"toggle", "delete"} =>
        last.status >= 400 \/ last.exc # "none"

\* C6 amended: for an index >= the length of the list (a negative one does
\* not match the routes) validate_task_index raises ValueError, but the
\* routes do not call it: /toggle answers 204 and /delete redirects, without
\* an error, and only the API (PUT, DELETE) answers 404; an index in range
\* is never answered 404.
C6_BadIndexAnswers ==
    /\ BadIndex(last) =>
        /\ validate_task_index(last.idx, View(last.pre)) = "ValueError"
        /\ last.exc = "none"
        /\ last.op = "toggle" => last.status = 204
        /\ last.op = "delete" => last.status = 302
        /\ last.op \in {"update", "delete_api"} => last.status = 404
    /\ last.op \in {"update", "delete_api"} /\ last.idx < Len(View(last.pre)) =>
        /\ validate_task_index(last.idx, View(last.pre)) = "none"
        /\ last.status # 404

C6_Witness ==
    /\ BadIndex(last)
    /\ last.op = "toggle"
    /\ last.idx = Len(View(last.pre))
    /\ last.idx = 1
    /\ last.status = 204

\* C7: a toggle or delete request whose index is out of range leaves the
\* stored list as it was and answers as usual (204, redirect); nothing is
\* saved, no backup is made and no after hook runs.
C7_BadIndexNoEffect ==
    [][ (last'.op \in {"toggle", "delete"} /\ last'.idx >= Len(View(file))) =>
            /\ file' = file
            /\ backups' = backups
            /\ list_tasks' = list_tasks
            /\ last'.status = (IF last'.op = "toggle" THEN 204 ELSE 302)
            /\ last'.exc = "none"
            /\ last'.trace = <<"load">> ]_vars

C7_Witness ==
    /\ last.op = "delete"
    /\ last.idx = 2
    /\ Len(View(last.pre)) = 2
    /\ last.status = 302
    /\ backups # {}
    /\ file = last.pre

\* the request is a load of a store file that does not parse, with backups
CorruptWithBackup == last'.op = "list" /\ file.kind = "corrupt" /\ backups # {}

\* b is the backup with the greatest timestamp
MostRecent(b) == b \in backups /\ \A u \in backups : u.ts <= b.ts

\* C8 as stated: whenever the store file holds invalid JSON and at least one
\* backup of it exists, load() returns the contents of the most recent backup.
C8_Original ==
    [][ CorruptWithBackup =>
            \E b \in backups :
                /\ MostRecent(b)
                /\ b.content.kind = "json"
                /\ last'.ret = b.content.data ]_vars

\* C8 amended: ... and the most recent backup holds valid JSON and the copy
\* that restores it succeeds, load() returns the content of that backup, as
\* stored, and leaves the store file equal to it; when the most recent backup
\* does not parse or the copy fails it returns an empty list.
C8_RestoresLatestBackup ==
    [][ CorruptWithBackup =>
            \A b \in backups :
                MostRecent(b) =>
                    IF b.content.kind = "json" /\ ~SeqHas(last'.trace, "restore_failed")
                    THEN /\ last'.ret = b.content.data
                         /\ file' = b.content
                         /\ backups' = backups
                    ELSE last'.ret = <<>> ]_vars

C8_Witness ==
    /\ last.op = "list"
    /\ last.pre.kind = "corrupt"
    /\ SeqHas(last.trace, "restore")
    /\ \E b, u \in backups :
            /\ MostRecent(b)
            /\ u.ts < b.ts
            /\ u.content # b.content
            /\ b.content.kind = "json"
            /\ last.ret = b.content.data
            /\ last.ret # <<>>
            /\ file = b.content

\* the store file does not hold valid JSON
InvalidJson(f) == f.kind \in {"corrupt", "undecodable"}

\* C9: load() never raises: it returns an empty list when the store file is
\* absent, and when the file holds invalid JSON and there is no backup, the
\* restoring copy fails or the restored file does not parse.
C9_LoadNeverRaises ==
    [][ last'.op = "list" =>
            /\ last'.exc = "none"
            /\ last'.status = 200
            /\ file.kind = "absent" => last'.ret = <<>> /\ file' = file
            /\ (/\ InvalidJson(file)
                /\ \/ backups = {}
                   \/ SeqHas(last'.trace, "restore_failed")
                   \/ \E b \in backups : MostRecent(b) /\ b.content.kind # "json")
               => last'.ret = <<>> ]_vars

\* C10: every record persisted in the store file by any sequence of requests
\* has a title that is a string and a done flag that is a boolean: the
\* stored list passes validate_data_integrity.
C10_StoredListIsValid ==
    file.kind = "json" /\ SeqHas(last.trace, "write") => validate_data_integrity(file.data)

\* the request is an add of a text whose trimmed form is not empty
AddsText(l) == l.op = "add" /\ IsStr(l.title) /\ strip(l.title.s) # <<>>

\* some of the first 200 characters of the trimmed text is kept
KeepsSome(s) ==
    \E i \in 1..Len(s) :
        i <= 200 /\ s[i] \notin {"<", ">", "&", "\"", "'"}

\* C11 as stated: for every text whose trimmed form is not empty, texts
\* longer than 200 characters included, validate_task_title does not fail
\* and returns a title of 1 to 200 characters.
C11_Original ==
    AddsText(last) =>
        LET r == validate_task_title(last.title)
        IN r.exc = "none" /\ Len(r.s) >= 1 /\ Len(r.s) <= 200

\* C11 amended: ... validate_task_title does not fail and returns a title
\* of at most 200 characters, none of them forbidden; the title is empty
\* exactly when the first 200 characters of the trimmed text are all
\* forbidden characters, and /add stores the title returned.
C11_TitleWithinLimit ==
    AddsText(last) =>
        LET r == validate_task_title(last.title)
        IN /\ r.exc = "none"
           /\ Len(r.s) <= 200
           /\ \A i \in 1..Len(r.s) : r.s[i] \notin {"<", ">", "&", "\"", "'"}
           /\ Len(r.s) >= 1 <=> KeepsSome(strip(last.title.s))
           /\ HasTask(<<list_tasks[Len(list_tasks)]>>, r.s, FALSE)

C11_Witness ==
    /\ AddsText(last)
    /\ Len(strip(last.title.s)) = 201
    /\ Len(validate_task_title(last.title).s) = 200
    /\ Len(Get(list_tasks[Len(list_tasks)], "title").s) = 200

\* C12: saving a valid list C, loading the result and saving what was loaded
\* leaves the store file with the content the first save of C gave it.
C12_SaveIsIdempotent ==
    [][ (/\ last.op = "save" /\ last.exc = "none"
         /\ validate_data_integrity(last.data)
         /\ last'.op = "resave" /\ last'.exc = "none")
        => /\ file = Json(last.data)
           /\ last'.ret = last.data
           /\ file' = file ]_vars

C12_Witness ==
    /\ last.op = "resave"
    /\ last.exc = "none"
    /\ SeqHas(last.trace, "backup") /\ SeqHas(last.trace, "write")
    /\ Len(last.ret) = 2
    /\ validate_data_integrity(last.ret)
    /\ file = last.pre
    /\ file = Json(last.ret)

\* the step is a load_tasks that follows a successful save_tasks
LoadAfterSave == last.op = "save" /\ last.exc = "none" /\ last'.op = "list"

C14_NormalizeRenamesOnce ==
    last.op = "list" /\ last.pre.kind = "json" =>
        /\ Len(last.ret) = Len(last.pre.data)
        /\ \A i \in 1..Len(last.ret) :
            LET c == last.pre.data[i]
                r == last.ret[i]
            IN /\ Has(c, "name") /\ ~Has(c, "title") =>
                    /\ Keys(r) = (Keys(c) \ {"name"}) \cup {"title", "done"}
                    /\ Get(r, "title") = Get(c, "name")
                    /\ ~Has(c, "done") => Get(r, "done") = Bool(FALSE)
                    /\ \A key \in Keys(c) \ {"name"} : Get(r, key) = Get(c, key)
               /\ normalize_task_schema(r) = r
        /\ normalize_all_tasks(last.ret) = last.ret

C14_Witness ==
    /\ last.op = "list"
    /\ last.pre.kind = "json"
    /\ Len(last.ret) = 2
    /\ Keys(last.pre.data[1]) = {"name"}
    /\ last.ret[1] = <<[k |-> "title", v |-> Str(<<"b">>)], [k |-> "done", v |-> Bool(FALSE)]>>
    /\ normalize_task_schema(last.ret[1]) = last.ret[1]

\* C15: when the before stage of a mutation fails, the mutation stops before
\* any persistence step: the store file is not written, no backup is made,
\* no after hook runs and the stored list is what it was.
C15_FailedBeforeStageStoresNothing ==
    [][ SeqHas(last'.trace, "validate_failed") =>
            /\ last'.op \in {"add", "create"}
            /\ last'.exc \in {"ValueError", "AttributeError"}
            /\ last'.trace = <<"normalize", "validate_failed">>
            /\ file' = file
            /\ backups' = backups
            /\ list_tasks' = list_tasks ]_vars

C15_Witness ==
    /\ last.op = "create"
    /\ last.exc = "AttributeError"
    /\ last.trace = <<"normalize", "validate_failed">>
    /\ Len(View(last.pre)) = 1
    /\ backups # {}
    /\ file = last.pre

\* the request went through the stages of a mutation
Mutation(l) == l.op \in {"add", "toggle", "delete", "create", "delete_api"}

\* some stage of the after hooks was entered
AfterStageRan(l) ==
    SeqHas(l.trace, "log") \/ SeqHas(l.trace, "log_failed") \/ SeqHas(l.trace, "metrics")

\* C16: in every mutation the after hooks run only if the save succeeded:
\* when the write fails no line is appended to the operation log and no
\* metric is recorded.
C16_AfterOnlyOnceSaved ==
    Mutation(last) =>
        /\ SeqHas(last.trace, "write_failed") =>
                ~AfterStageRan(last) /\ last.exc = "IOError"
        /\ AfterStageRan(last) => SeqHas(last.trace, "write") /\ file.kind = "json"

C16_Witness ==
    /\ last.op = "toggle"
    /\ SeqHas(last.trace, "write_failed")
    /\ SeqHas(last.trace, "backup")
    /\ file.kind = "corrupt"
    /\ ~AfterStageRan(last)

\* C17: a failure inside an after hook is swallowed and does not roll the
\* mutation back: the store holds the change and the mutation is not
\* reported to the caller as failed.
C17_AfterFailureSwallowed ==
    Mutation(last) /\ SeqHas(last.trace, "log_failed") =>
        /\ SeqHas(last.trace, "write")
        /\ file.kind = "json"
        /\ file # last.pre
        /\ last.status < 400

\* the place of a stage in the pipeline (0: not a stage of it)
StageRank(x) ==
    CASE x = "normalize" -> 1
      [] x \in {"validate", "validate_failed", "before"} -> 2
      [] x \in {"backup", "backup_failed"} -> 3
      [] x \in {"write", "write_failed"} -> 4
      [] x \in {"log", "log_failed"} -> 5
      [] x = "metrics" -> 6
      [] OTHER -> 0

\* C18: within every mutation the stages occur in the order before stage
\* (normalization, then validation), persistence, after stage (log line,
\* then metrics); none is repeated and nothing follows a stage that failed.
C18_StagesInOrder ==
    Mutation(last) =>
        LET tr == last.trace
        IN /\ \A i, j \in 1..Len(tr) :
                i < j /\ StageRank(tr[i]) > 0 /\ StageRank(tr[j]) > 0
                    => StageRank(tr[i]) < StageRank(tr[j])
           /\ \A i \in 1..Len(tr) :
                tr[i] \in {"validate_failed", "write_failed", "log_failed"} => i = Len(tr)
           /\ SeqHas(tr, "metrics") => SeqHas(tr, "log")
           /\ SeqHas(tr, "log") \/ SeqHas(tr, "log_failed") => SeqHas(tr, "write")
           /\ SeqHas(tr, "write") \/ SeqHas(tr, "write_failed") =>
                \E i \in 1..Len(tr) : StageRank(tr[i]) = 2

C18_Witness ==
    /\ last.op = "add"
    /\ last.trace = <<"normalize", "validate", "load", "backup", "write", "log", "metrics">>
    /\ Len(list_tasks) = Len(View(last.pre)) + 1

\* the step is a save_tasks on a store file that exists
SaveOverFile == last'.op = "save" /\ file.kind # "absent"

\* C19: in save, when the store file exists the backup copy is taken before
\* the file is overwritten: the backup that save creates holds the content
\* the store file had before the write.
C19_BackupHoldsOldContent ==
    [][ SaveOverFile =>
            /\ SeqHas(last'.trace, "backup") =>
                    /\ [ts |-> now, content |-> file] \in backups'
                    /\ \A b \in backups' : b.ts = now => b.content = file
                    /\ last'.trace[1] = "backup"
            /\ ~SeqHas(last'.trace, "backup") =>
                    SeqHas(last'.trace, "backup_failed") /\ backups' = backups ]_vars

C19_Witness ==
    /\ last.op = "save"
    /\ last.trace = <<"backup", "write">>
    /\ last.pre.kind = "json"
    /\ Len(last.pre.data) = 1
    /\ file = Json(last.data)
    /\ file # last.pre
    /\ backups = {[ts |-> now, content |-> last.pre]}

\* C20: when the write of the store file fails, save_tasks raises, and the
\* backup taken before that write is still in the backup directory with
\* the content the file had before the write.
C20_FailedWriteRaisesKeepsBackup ==
    [][ last'.op = "save" /\ SeqHas(last'.trace, "write_failed") =>
            /\ last'.exc = "IOError"
            /\ file' # Json(last'.data) \/ file' = file
            /\ file.kind # "absent" /\ SeqHas(last'.trace, "backup") =>
                    [ts |-> now, content |-> file] \in backups'
            /\ file.kind = "absent" => backups' = backups ]_vars

C20_Witness ==
    /\ last.op = "save"
    /\ last.trace = <<"backup", "write_failed">>
    /\ last.exc = "IOError"
    /\ last.pre.kind = "json"
    /\ Len(last.pre.data) = 2
    /\ file = Corrupt
    /\ backups = {[ts |-> now, content |-> last.pre]}

C22_GreatestNameIsLatest ==
    [][ last'.op = "list" /\ SeqHas(last'.trace, "restore") =>
            \E b \in backups :
                /\ \A u \in backups : u.ts <= b.ts
                /\ \A u \in backups :
                        u.ts < b.ts => str_less(backup_name(u.ts), backup_name(b.ts))
                /\ file' = b.content ]_vars

C22_Witness ==
    /\ last.op = "list"
    /\ SeqHas(last.trace, "restore")
    /\ \E b, u \in backups :
            /\ u.ts = 9 /\ b.ts = 10
            /\ u.content # b.content
            /\ file = b.content
            /\ last.ret = b.content.data

\* the thread has written its list to the store file
Wrote(c) == pending[c].pc \in {"saved", "done"}

\* both threads have written lists built from the same collection, and
\* second wrote after first
Clobbered(first, second) ==
    /\ first # second
    /\ Wrote(first)
    /\ Wrote(second)
    /\ pending[first].snapshot = pending[second].snapshot
    /\ last.idx = second

\* C23: when two concurrent requests to add a task have read the same
\* collection and both have written back, the store file holds the collection
\* they read plus the second writer's task alone: one record more, not two,
\* the first writer's addition is lost
C23_SecondWriteClobbersFirst ==
    \A first \in Callers, second \in Callers :
        Clobbered(first, second) =>
            /\ file = Json(Append(pending[second].snapshot, pending[second].task))
            /\ Len(file.data) = Len(pending[first].snapshot) + 1

\* both requests have completed and the first writer's task, of another
\* title than the second writer's, is not in the store
C23_Witness ==
    \E first \in Callers, second \in Callers :
        /\ Clobbered(first, second)
        /\ pending[first].pc = "done"
        /\ pending[second].pc = "done"
        /\ pending[first].task # pending[second].task
        /\ file.kind = "json"
        /\ ~SeqHas(file.data, pending[first].task)

\* C24: the token a call of start_operation returns is not the token of an
\* operation in flight at the call, so the call adds an entry to the
\* operations in flight and overwrites none
C24_StartTokenIsFresh ==
    last.op = "start" =>
        /\ ~Has(last.data, last.ret)
        /\ Len(current_operations) = Len(last.data) + 1

\* C25: end_operation(token) of a token in flight removes that entry and no
\* other and appends one metric, of the operation's name, to the history;
\* of a token not in flight (never started, or stopped before) it returns
\* zero and leaves the operations in flight and the metrics as they were
C25_StopOnce ==
    last.op = "stop" =>
        IF Has(last.data, last.title)
        THEN /\ Keys(current_operations) = Keys(last.data) \ {last.title}
             /\ Len(current_operations) = Len(last.data) - 1
             /\ Len(metrics.operations) = Len(last.pre.operations) + 1
             /\ SubSeq(metrics.operations, 1, Len(last.pre.operations)) = last.pre.operations
             /\ metrics.operations[Len(metrics.operations)].operation = last.title.name
             /\ Get(metrics.summary, last.title.name).count
                    = GetOr(last.pre.summary, last.title.name, new_stats).count + 1
        ELSE /\ last.ret = 0
             /\ current_operations = last.data
             /\ metrics = last.pre

\* a token is stopped a second time: its first stop, a quarter of a
\* millisecond after its start, made the one metric there is
C25_Witness ==
    /\ last.op = "stop"
    /\ ~Has(last.data, last.title)
    /\ last.ret = 0
    /\ Len(ref) = 1
    /\ ref[1].operation = last.title.name
    /\ ref[1].duration = 1
    /\ ref[1].timestamp \div TicksPerMs = last.title.ms
    /\ Len(metrics.operations) = 1

DurationsOf(operation) ==
    SelectSeq([i \in 1..Len(ref) |-> IF ref[i].operation = operation
                                     THEN <<ref[i].duration>> ELSE <<>>],
              LAMBDA e : e # <<>>)

RECURSIVE SumOf(_)
SumOf(ds) == IF ds = <<>> THEN 0 ELSE ds[1][1] + SumOf(Tail(ds))

\* C27: for every operation recorded, count is the number of calls of
\* record_metric made for it, total their sum, average total / count, min and
\* max the smallest and the largest duration recorded, and
\* min <= average <= max
C27_SummaryMatchesRecords ==
    \A operation \in {ref[i].operation : i \in 1..Len(ref)} :
        LET ds == DurationsOf(operation)
            stats == Get(metrics.summary, operation)
        IN /\ Has(metrics.summary, operation)
           /\ stats.count = Len(ds)
           /\ stats.total_duration = SumOf(ds)
           /\ stats.avg_duration.n * stats.count = stats.total_duration * stats.avg_duration.d
           /\ ~stats.min_duration.inf
           /\ \A i \in 1..Len(ds) :
                  stats.min_duration.x <= ds[i][1] /\ ds[i][1] <= stats.max_duration
           /\ \E i \in 1..Len(ds) : stats.min_duration.x = ds[i][1]
           /\ \E i \in 1..Len(ds) : stats.max_duration = ds[i][1]
           /\ stats.min_duration.x * stats.avg_duration.d <= stats.avg_duration.n
           /\ stats.avg_duration.n <= stats.max_duration * stats.avg_duration.d

\* the record has a title, no legacy name and a done field
Canonical(task) == Has(task, "title") /\ ~Has(task, "name") /\ Has(task, "done")

\* C28: the list load_tasks returns, as GET /api/tasks shows it, holds
\* canonical records on every path, recovery from a backup included, and a
\* request that writes the store writes canonical records only
C28_LoadedRecordsAreCanonical ==
    /\ last.op = "list" /\ last.status = 200 =>
           \A i \in 1..Len(last.ret) : Canonical(last.ret[i])
    /\ last.op \in {"add", "toggle"} /\ SeqHas(last.trace, "write") =>
           /\ file.kind = "json"
           /\ \A i \in 1..Len(file.data) : Canonical(file.data[i])

\* C29: when a request that changes tasks is answered with an error status,
\* the store file is what it was before the request
C29_ErrorLeavesStoreUnchanged ==
    /\ last.op \in {"add", "toggle", "delete", "create", "update", "delete_api"}
    /\ last.status >= 400
    => file = last.pre

\* the request is a load of a store file that did not parse, made after some
\* save has succeeded
RecoveredAfterSave == last.op = "list" /\ last.pre.kind = "corrupt" /\ ref # <<>>

\* C30 as stated: when the store file is corrupt after successful saves, load
\* recovers the content the store had just before the most recent successful
\* save, and the store file then equals the latest backup.
C30_Original ==
    RecoveredAfterSave =>
        /\ last.ret = View(ref[1].before)
        /\ \E b \in backups : MostRecent(b) /\ file = b.content

\* C30 amended: ... when the most recent successful save made its backup, no
\* later failed save made one, and the restoring copy succeeds, the load
\* leaves the store file equal to the latest backup, which is the content the
\* store had before that save, and returns its records as stored (none when
\* that content does not parse); when there is no backup at all it returns
\* an empty list and leaves the file as it is.
C30_RecoveryUndoesLastSave ==
    RecoveredAfterSave =>
        /\ ref[1].backed /\ ~SeqHas(last.trace, "restore_failed") =>
               /\ file = ref[1].before
               /\ \E b \in backups : MostRecent(b) /\ b.content = file
               /\ last.ret = (IF file.kind = "json" THEN file.data ELSE <<>>)
        /\ backups = {} => last.ret = <<>> /\ file = last.pre

\* two saves within one second, the second a toggle of the task the first
\* added, then damage and a load: the task comes back not done
C30_Witness ==
    /\ RecoveredAfterSave
    /\ ref[1].backed
    /\ SeqHas(last.trace, "restore")
    /\ Cardinality(backups) = 1
    /\ file = ref[1].before
    /\ last.ret = file.data
    /\ Len(last.ret) = 1
    /\ Has(last.ret[1], "title")
    /\ Get(last.ret[1], "title") = Str(<<"a">>)
    /\ Get(last.ret[1], "done") = Bool(FALSE)
    /\ origin = "empty"

====
